---- MODULE Spec2Model ----
(***************************************************************************)
(* Model of the galaxy / planetary-system viewer.                          *)
(*                                                                         *)
(* App (part_004) owns the view state: viewMode, selectedStar,             *)
(* selectedPlanet and previousCamera.  Scene (Scene.tsx) renders that      *)
(* state inside the canvas: CameraController saves / restores the camera   *)
(* pose in an effect that runs after the render, ClickableStarField        *)
(* (StarField.tsx) is mounted in the galaxy view and PlanetarySystemView   *)
(* (UI.tsx) in the system view.  Event handlers update the App state at    *)
(* once; the canvas tree is re-rendered, and its effects run, in a later   *)
(* step (SceneCommit).                                                     *)
(***************************************************************************)
EXTENDS Integers, Sequences, FiniteSets, TLC

\* ------------------------------------------------------------------ bounds
NumStars == 2          \* stars in the catalog file
MaxBatch == 3          \* longest batch of the picking specification
PlanetsPerHost == 1    \* planets of a star that has planets
NumUserPoses == 1      \* camera poses the user can move to
CounterCap == 2        \* history counters saturate here
FractionBits == 10     \* binary places kept by a Float32Array store
MaxRotationSteps == 1  \* rotation steps of the point cloud are counted up to here
MaxCalls == 2          \* getExoplanetsForStar calls of a session

\* --------------------------------------------------------- program constants
threshold == 5         \* hover distance threshold
Infinity == 1000       \* initial closestDistance, above every distance

Stars == 1..NumStars
NoStar == 0
NoIndex == 0

\* Ray-to-point distances a tick can see: two below the threshold, one equal
\* to it and one far away.
DistVals == {1, 4, threshold, 50}

\* The catalog file, in file order.
Catalog == [i \in 1..NumStars |-> i]
\* fetchGaiaStars resolves with the filtered catalog (possibly empty).
FetchResults == {<< >>, Catalog}

\* ------------------------------------------------------------ number values
\* A JavaScript number is modelled by the exact rational <<n, d>>, d > 0, in
\* lowest terms; undefined (and the empty string) by the empty tuple.
Undefined == << >>
Abs(x) == IF x < 0 THEN -x ELSE x
Min(a, b) == IF a < b THEN a ELSE b
RECURSIVE GCD(_, _)
GCD(a, b) == IF b = 0 THEN a ELSE GCD(b, a % b)
LCM(a, b) == (a \div GCD(a, b)) * b
Rat(n, d) == LET g == GCD(Abs(n), d) IN <<n \div g, d \div g>>
Num(n) == <<n, 1>>
RatAdd(a, b) ==
  LET l == LCM(a[2], b[2]) IN Rat(a[1] * (l \div a[2]) + b[1] * (l \div b[2]), l)
RatNeg(a) == <<-a[1], a[2]>>
RatSub(a, b) == RatAdd(a, RatNeg(b))
RatMul(a, b) == Rat(a[1] * b[1], a[2] * b[2])
\* a / b for b # 0
RatDiv(a, b) ==
  IF b[1] > 0 THEN Rat(a[1] * b[2], a[2] * b[1])
  ELSE Rat(-(a[1] * b[2]), a[2] * (-b[1]))
RatLt(a, b) ==
  LET l == LCM(a[2], b[2]) IN a[1] * (l \div a[2]) < b[1] * (l \div b[2])
RatLeq(a, b) == ~RatLt(b, a)
MathMin(a, b) == IF RatLt(b, a) THEN b ELSE a
MathMax(a, b) == IF RatLt(a, b) THEN b ELSE a
MathAbs(a) == <<Abs(a[1]), a[2]>>
IsSquare(n) == \E r \in 0..n : r * r = n
ISqrt(n) == CHOOSE r \in 0..n : r * r = n
\* Math.sqrt, on the rationals whose root is rational
MathSqrt(a) == <<ISqrt(a[1]), ISqrt(a[2])>>
\* Math.pow for an integer exponent
RECURSIVE MathPow(_, _)
MathPow(base, k) ==
  IF k = 0 THEN Num(1)
  ELSE IF k > 0 THEN RatMul(base, MathPow(base, k - 1))
  ELSE RatDiv(MathPow(base, k + 1), base)
\* Math.cos and Math.sin of an angle given in degrees, at the multiples of 90
\* degrees, on the reals.
MathCos(deg) == CASE deg % 360 = 0 -> Num(1) [] deg % 360 = 180 -> Num(-1) [] OTHER -> Num(0)
MathSin(deg) == CASE deg % 360 = 90 -> Num(1) [] deg % 360 = 270 -> Num(-1) [] OTHER -> Num(0)
\* JavaScript falsiness of an optional number (undefined, 0) and of an
\* optional string (undefined, "").
Falsy(x) == IF x = Undefined THEN TRUE ELSE x[1] = 0
FalsyString(str) == str = Undefined
\* A store into a Float32Array rounds to the nearest representable value,
\* ties to even; the model keeps FractionBits binary places.
fround(x) ==
  LET scale == 2 ^ FractionBits
      q == (x[1] * scale) \div x[2]
      rem == x[1] * scale - q * x[2]
      rounded == IF 2 * rem > x[2] THEN q + 1
                 ELSE IF 2 * rem = x[2] THEN q + (q % 2) ELSE q
  IN Rat(rounded, scale)

\* ------------------------------------------------------------------ strings
\* A string is the sequence of its characters.
toLowerCaseChar(c) ==
  CASE c = "H" -> "h" [] c = "D" -> "d" [] c = "K" -> "k" [] c = "X" -> "x"
    [] OTHER -> c
toLowerCase(str) == [i \in 1..Len(str) |-> toLowerCaseChar(str[i])]
\* String.prototype.includes for a non-empty search string
includes(str, search) ==
  \E off \in 0..(Len(str) - Len(search)) :
    \A i \in 1..Len(search) : str[off + i] = search[i]

\* ------------------------------------------------------- exoplanet service
\* The name test of getExoplanetsForStar.
hostnameMatches(hostname, starName) ==
  /\ ~FalsyString(hostname) /\ ~FalsyString(starName)
  /\ includes(toLowerCase(hostname), toLowerCase(starName))

\* The coordinate test of getExoplanetsForStar: sqrt(dRa^2 + dDec^2) < 0.01,
\* decided on the squares.
coordinatesMatch(planet, ra, dec) ==
  /\ ra # Undefined /\ dec # Undefined /\ ~Falsy(planet.ra) /\ ~Falsy(planet.dec)
  /\ LET dRa == MathAbs(RatSub(planet.ra, ra))
         dDec == MathAbs(RatSub(planet.dec, dec))
     IN RatLt(RatAdd(RatMul(dRa, dRa), RatMul(dDec, dDec)), Rat(1, 10000))

\* Variant: the bounds of the window are exclusive.
isInHabitableZoneExclusive(eqTemp, radius) ==
  /\ RatLt(Num(200), eqTemp) /\ RatLt(eqTemp, Num(350))
  /\ RatLt(Rat(1, 2), radius) /\ RatLt(radius, Num(2))

\* isInHabitableZone
isInHabitableZone(eqTemp, radius) ==
  /\ RatLeq(Num(200), eqTemp) /\ RatLeq(eqTemp, Num(350))
  /\ RatLeq(Rat(1, 2), radius) /\ RatLeq(radius, Num(2))

\* The filter of getExoplanetsForStar over the planets of the cache.
matchingPlanets(cache, starName, ra, dec) ==
  {planet \in cache :
     hostnameMatches(planet.hostname, starName) \/ coordinatesMatch(planet, ra, dec)}

\* The habitability pass over one planet: the flag is written when the
\* temperature and the radius are both truthy, and left alone otherwise.
setHabitable(planet) ==
  IF ~Falsy(planet.pl_eqt) /\ ~Falsy(planet.pl_rade)
  THEN [planet EXCEPT !.habitable =
          IF isInHabitableZone(planet.pl_eqt, planet.pl_rade) THEN "true" ELSE "false"]
  ELSE planet

\* getExoplanetsForStar over the loaded planet cache: the matching planets,
\* with their habitable flag.
getExoplanetsForStar(cache, starName, ra, dec) ==
  {setHabitable(planet) : planet \in matchingPlanets(cache, starName, ra, dec)}

\* fetchExoplanets: the planets of the file, or none when the load fails.
fetchExoplanets(response) ==
  IF response.kind = "ok" THEN response.body ELSE {}

\* The module variable allExoplanetsCache: null, or the fetched array
\* (origin tells a fetched file from the empty array of a failed fetch).
NullCache == [loaded |-> FALSE, planets |-> {}, origin |-> "none"]

\* Variant: an empty array counts as not cached.
cacheMissingWhenEmpty(cache) == ~cache.loaded \/ cache.planets = {}

\* !allExoplanetsCache: only null is falsy, an array is truthy even if empty.
cacheMissing(cache) == ~cache.loaded

\* The stars of the catalog file: name and coordinates (degrees).
StarName(star) == <<"H", "D", ToString(star)>>
StarRa(star) == Num(star)
StarDec(star) == Num(star)

\* The planet file.  Odd stars host planets, even stars host none.
NoPlanet == << >>
ExoplanetCatalog ==
  {[pl_name |-> <<s, k>>, hostname |-> StarName(s), ra |-> StarRa(s), dec |-> StarDec(s),
    pl_eqt |-> Undefined, pl_rade |-> Undefined, habitable |-> "unset"] :
     s \in {t \in Stars : t % 2 = 1}, k \in 1..PlanetsPerHost}
\* loadPlanets: the planets PlanetarySystemView finds for its star.
foundPlanets(star) ==
  getExoplanetsForStar(ExoplanetCatalog, StarName(star), StarRa(star), StarDec(star))

\* ------------------------------------------------------------ gaia service
\* Variant: no clamp to the visualisation range.
parallaxToDistanceUnclamped(parallax) ==
  IF RatLeq(parallax, Num(0)) THEN Num(100)
  ELSE RatMul(RatDiv(Num(1000), parallax), Rat(1, 10))

\* parallaxToDistance: scene distance of a parallax in milliarcseconds.
parallaxToDistance(parallax) ==
  IF RatLeq(parallax, Num(0)) THEN Num(100)
  ELSE LET parsecs == RatDiv(Num(1000), parallax)
       IN MathMin(MathMax(RatMul(parsecs, Rat(1, 10)), Num(10)), Num(200))

\* equatorialToCartesian, for ra and dec a whole number of degrees.
equatorialToCartesian(ra, dec, distance) ==
  LET x == RatMul(RatMul(distance, MathCos(dec[1])), MathCos(ra[1]))
      y == RatMul(RatMul(distance, MathCos(dec[1])), MathSin(ra[1]))
      z == RatMul(distance, MathSin(dec[1]))
  IN <<x, z, RatNeg(y)>>

\* Variant: the size is not clamped.
magnitudeToSizeUnclamped(magnitude) ==
  LET normalized == RatSub(Num(8), magnitude)
      size == MathPow(Rat(3, 2), RatDiv(normalized, Num(2))[1])
  IN size

\* magnitudeToSize, for the magnitudes whose exponent (8 - magnitude) / 2 is
\* a whole number.
magnitudeToSize(magnitude) ==
  LET normalized == RatSub(Num(8), magnitude)
      size == MathPow(Rat(3, 2), RatDiv(normalized, Num(2))[1])
  IN MathMax(Num(1), MathMin(size, Num(12)))

\* Variant: the red branch does not cap t at 1.
colorIndexToRGBUncapped(bpRp) ==
  IF bpRp = Undefined THEN <<Num(1), Num(1), Num(1)>>
  ELSE IF RatLt(bpRp, Rat(1, 2)) THEN
    LET t == MathMax(Num(0), MathMin(Num(1), RatDiv(RatAdd(bpRp, Rat(1, 2)), Num(1))))
    IN <<RatAdd(Rat(3, 5), RatMul(t, Rat(2, 5))),
         RatAdd(Rat(7, 10), RatMul(t, Rat(3, 10))), Num(1)>>
  ELSE IF RatLt(bpRp, Rat(3, 2)) THEN
    LET t == RatDiv(RatSub(bpRp, Rat(1, 2)), Num(1))
    IN <<Num(1), RatSub(Num(1), RatMul(t, Rat(1, 5))),
         RatSub(Rat(9, 10), RatMul(t, Rat(2, 5)))>>
  ELSE
    LET t == RatDiv(RatSub(bpRp, Rat(3, 2)), Rat(3, 2))
    IN <<Num(1), RatSub(Rat(7, 10), RatMul(t, Rat(2, 5))),
         RatSub(Rat(2, 5), RatMul(t, Rat(2, 5)))>>

\* colorIndexToRGB: colour of a BP-RP colour index.
colorIndexToRGB(bpRp) ==
  IF bpRp = Undefined THEN <<Num(1), Num(1), Num(1)>>
  ELSE IF RatLt(bpRp, Rat(1, 2)) THEN
    LET t == MathMax(Num(0), MathMin(Num(1), RatDiv(RatAdd(bpRp, Rat(1, 2)), Num(1))))
    IN <<RatAdd(Rat(3, 5), RatMul(t, Rat(2, 5))),
         RatAdd(Rat(7, 10), RatMul(t, Rat(3, 10))), Num(1)>>
  ELSE IF RatLt(bpRp, Rat(3, 2)) THEN
    LET t == RatDiv(RatSub(bpRp, Rat(1, 2)), Num(1))
    IN <<Num(1), RatSub(Num(1), RatMul(t, Rat(1, 5))),
         RatSub(Rat(9, 10), RatMul(t, Rat(2, 5)))>>
  ELSE
    LET t == MathMin(Num(1), RatDiv(RatSub(bpRp, Rat(3, 2)), Rat(3, 2)))
    IN <<Num(1), RatSub(Rat(7, 10), RatMul(t, Rat(2, 5))),
         RatSub(Rat(2, 5), RatMul(t, Rat(2, 5)))>>

\* getTotalProperMotion
getTotalProperMotion(pmra, pmdec) ==
  IF Falsy(pmra) \/ Falsy(pmdec) THEN Num(0)
  ELSE MathSqrt(RatAdd(RatMul(pmra, pmra), RatMul(pmdec, pmdec)))

\* generateMockStars: count stars mock_0 .. mock_(count-1); their other
\* fields are random and left out.
generateMockStars(count) == [i \in 1..count |-> [source_id |-> <<"mock", i - 1>>]]

\* Variant: the fallback batch is as long as the limit.
mockCountUncapped(limit) == limit

\* The length of the fallback batch.
mockCount(limit) == Min(limit, 2000)

\* Array.prototype.slice(0, limit) for limit >= 0
slice(array, limit) == SubSeq(array, 1, Min(limit, Len(array)))

\* The try block of fetchGaiaStars: one fetch; a rejected fetch, a response
\* that is not ok and a body that is not JSON throw.
tryLoadStars(response, limit, minMagnitude, maxMagnitude) ==
  IF response.kind = "ok" THEN
    LET inRange(star) == /\ RatLeq(minMagnitude, star.phot_g_mean_mag)
                         /\ RatLeq(star.phot_g_mean_mag, maxMagnitude)
    IN [threw |-> FALSE, fetches |-> 1,
        value |-> slice(SelectSeq(response.body, inRange), limit)]
  ELSE [threw |-> TRUE, fetches |-> 1]

\* fetchGaiaStars: how the promise settles, the batch it carries and the
\* number of fetch calls made.
fetchGaiaStars(response, limit, minMagnitude, maxMagnitude) ==
  LET attempt == tryLoadStars(response, limit, minMagnitude, maxMagnitude)
  IN IF attempt.threw
     THEN [settled |-> "resolved", fetches |-> attempt.fetches,
           stars |-> generateMockStars(mockCount(limit))]
     ELSE [settled |-> "resolved", fetches |-> attempt.fetches,
           stars |-> attempt.value]

\* ------------------------------------------------------------ system view
\* planet.pl_orbsmax || 1
orbitAxis(axis) == IF Falsy(axis) THEN Num(1) ELSE axis

\* Math.max over a non-empty list
RECURSIVE MathMaxOf(_)
MathMaxOf(list) ==
  IF Len(list) = 1 THEN list[1] ELSE MathMax(list[1], MathMaxOf(Tail(list)))

\* AU_SCALE of PlanetarySystemView, for the semi-major axes of its planets.
auScale(axes) ==
  LET maxOrbit == MathMaxOf([i \in 1..Len(axes) |-> orbitAxis(axes[i])])
  IN IF RatLt(Num(10), maxOrbit) THEN RatDiv(Num(50), maxOrbit) ELSE Num(10)

\* The rings drawn for a planet list: one orbit radius per planet and the
\* factor applied to the habitable-zone bounds.
systemRings(axes) ==
  [orbitRadius |-> [i \in 1..Len(axes) |-> RatMul(orbitAxis(axes[i]), auScale(axes))],
   habitableZoneScale |-> auScale(axes)]

\* ------------------------------------------------------ point cloud builder
\* Variant: entries are packed without the stride.
bufferIndexPacked(i, k, stride) == (i - 1) + k

\* Index of component k of star i in a buffer of the given stride (the
\* model's sequences start at 1).
bufferIndex(i, k, stride) == (i - 1) * stride + k

starPosition(star) ==
  equatorialToCartesian(star.ra, star.dec, parallaxToDistance(star.parallax))

\* The colour written for a star: colorIndexToRGB scaled by the brightness.
starColor(star) ==
  LET rgb == colorIndexToRGB(star.bp_rp)
      brightness == MathMax(Rat(1, 2),
                            RatSub(Num(1), RatDiv(star.phot_g_mean_mag, Num(10))))
  IN [k \in 1..3 |-> RatMul(rgb[k], brightness)]

\* One iteration of stars.forEach in the builder.
writeStar(acc, star, i) ==
  LET pos == starPosition(star)
      col == starColor(star)
  IN [positions |-> [j \in DOMAIN acc.positions |->
                       IF \E k \in 1..3 : j = bufferIndex(i, k, 3)
                       THEN fround(pos[CHOOSE k \in 1..3 : j = bufferIndex(i, k, 3)])
                       ELSE acc.positions[j]],
      sizes |-> [j \in DOMAIN acc.sizes |->
                   IF j = bufferIndex(i, 1, 1)
                   THEN fround(magnitudeToSize(star.phot_g_mean_mag))
                   ELSE acc.sizes[j]],
      colors |-> [j \in DOMAIN acc.colors |->
                    IF \E k \in 1..3 : j = bufferIndex(i, k, 3)
                    THEN fround(col[CHOOSE k \in 1..3 : j = bufferIndex(i, k, 3)])
                    ELSE acc.colors[j]],
      starData |-> Append(acc.starData, [star |-> star, position |-> pos])]

RECURSIVE forEachStar(_, _, _)
forEachStar(batch, i, acc) ==
  IF i > Len(batch) THEN acc
  ELSE forEachStar(batch, i + 1, writeStar(acc, batch[i], i))

\* The useMemo of ClickableStarField: zero-filled Float32Arrays of length
\* 3n, n and 3n and the pick table, filled star by star.
buildPointCloud(batch) ==
  forEachStar(batch, 1,
    [positions |-> [j \in 1..(3 * Len(batch)) |-> Num(0)],
     sizes |-> [j \in 1..Len(batch) |-> Num(0)],
     colors |-> [j \in 1..(3 * Len(batch)) |-> Num(0)],
     starData |-> << >>])

\* The callers of getExoplanetsForStar and a call not yet made.
CallIds == 1..MaxCalls
NoQuery == [name |-> Undefined, ra |-> Undefined, dec |-> Undefined]
IdleCall == [pc |-> "idle", star |-> NoQuery, fetched |-> FALSE,
             afterFailure |-> FALSE, source |-> "none", result |-> {}]

\* Camera poses: camera.position and the orbit-controls target.
NullPose == [position |-> << >>, target |-> << >>]
GalaxyPosition == <<0, 0, 150>>
SystemPosition == <<0, 5, 15>>
Origin == <<0, 0, 0>>
SystemPose == [position |-> SystemPosition, target |-> Origin]
InitialPose == [position |-> GalaxyPosition, target |-> Origin]
\* Poses the user can orbit, pan or wheel to.
UserPoses == {[position |-> <<10 * i, 20, 30>>, target |-> <<i, 0, 0>>] :
              i \in 1..NumUserPoses}
Poses == {InitialPose, SystemPose} \cup UserPoses

VARIABLES
  \* App state (part_004)
  viewMode, selectedStar, selectedPlanet, previousCamera,
  \* props and effect dependencies of the last canvas render (Scene.tsx)
  sceneMode, sceneStar, sceneSaved, savedDirty,
  \* CameraController (Scene.tsx)
  prevViewMode, camera,
  \* ClickableStarField (StarField.tsx)
  loading, stars, hoveredStar, rotationY, fieldFetches,
  \* PlanetarySystemView (UI.tsx)
  psvLoading, planets,
  \* history
  lastOp, ray, clickStar, clickPose, clickRun, before, trip,
  captures, entries, captureFrom, camView, savedView, emitted,
  \* the last evaluation of a catalog function: name, inputs, result
  calc,
  \* exoplanet service (part_002): the module cache, the fetches made and
  \* the getExoplanetsForStar calls in progress
  allExoplanetsCache, exoFetches, calls

appVars == <<viewMode, selectedStar, selectedPlanet, previousCamera>>
sceneVars == <<sceneMode, sceneStar, sceneSaved, savedDirty>>
camVars == <<prevViewMode, camera>>
csfVars == <<loading, stars, hoveredStar, rotationY, fieldFetches>>
psvVars == <<psvLoading, planets>>
histVars == <<lastOp, ray, clickStar, clickPose, clickRun, before, trip,
              captures, entries, captureFrom, camView, savedView, emitted>>
viewVars == <<appVars, sceneVars, camVars, csfVars, psvVars, histVars>>
svcVars == <<allExoplanetsCache, exoFetches, calls>>
vars == <<viewVars, calc, svcVars>>

\* No catalog function has been evaluated.
NoCalc == [fn |-> "none"]

\* Snapshot of the view state and camera, taken by a handler before it acts.
Snapshot == [viewMode |-> viewMode, selectedStar |-> selectedStar,
             selectedPlanet |-> selectedPlanet, previousCamera |-> previousCamera,
             camera |-> camera]
NoSnapshot == [viewMode |-> "none", selectedStar |-> NoStar,
               selectedPlanet |-> NoPlanet, previousCamera |-> NullPose,
               camera |-> NullPose]

\* The OrbitControls ref is attached for the whole life of the canvas.
controlsRefCurrent == TRUE

\* State after construction, but for the star field's batch.
InitView ==
  /\ viewMode = "galaxy" /\ selectedStar = NoStar
  /\ selectedPlanet = NoPlanet /\ previousCamera = NullPose
  /\ sceneMode = "galaxy" /\ sceneStar = NoStar
  /\ sceneSaved = NullPose /\ savedDirty = FALSE
  /\ prevViewMode = "galaxy" /\ camera = InitialPose
  /\ hoveredStar = NoIndex /\ ray = << >>
  /\ rotationY = 0 /\ fieldFetches = 1
  /\ psvLoading = FALSE /\ planets = {}
  /\ lastOp = "init" /\ clickStar = NoStar /\ clickPose = NullPose
  /\ clickRun = 0 /\ before = NoSnapshot /\ trip = "none"
  /\ captures = 0 /\ entries = 0 /\ captureFrom = "none"
  /\ camView = "galaxy" /\ savedView = "none"
  /\ emitted = << >> /\ calc = NoCalc
  /\ allExoplanetsCache = NullCache /\ exoFetches = 0
  /\ calls = [c \in CallIds |-> IdleCall]

\* The star field is mounted and its fetch is pending.
Init ==
  /\ InitView
  /\ loading = TRUE /\ stars = << >>

\* Variant: switch to the system view only for a star with planets.
handleStarClickIfPlanets(star) ==
  /\ selectedStar' = star
  /\ viewMode' = IF foundPlanets(star) # {} THEN "system" ELSE viewMode
  /\ UNCHANGED <<selectedPlanet, previousCamera>>

\* Variant: clicking the selected star again deselects it.
handleStarClickToggle(star) ==
  /\ selectedStar' = IF selectedStar = star THEN NoStar ELSE star
  /\ viewMode' = IF selectedStar = star THEN "galaxy" ELSE "system"
  /\ UNCHANGED <<selectedPlanet, previousCamera>>

\* ------------------------------------------------------------ App handlers
handleStarClick(star) ==
  /\ selectedStar' = star
  /\ viewMode' = "system"
  /\ UNCHANGED <<selectedPlanet, previousCamera>>

handleReturnToGalaxy ==
  /\ viewMode' = "galaxy"
  /\ selectedStar' = NoStar
  /\ UNCHANGED <<selectedPlanet, previousCamera>>

handlePlanetSelect(planet) ==
  /\ selectedPlanet' = planet
  /\ UNCHANGED <<viewMode, selectedStar, previousCamera>>

\* Variant: the in-system star click also clears the selected star.
handleStarSelectInSystemClearsStar(star) ==
  /\ selectedPlanet' = NoPlanet
  /\ selectedStar' = NoStar
  /\ UNCHANGED <<viewMode, previousCamera>>


handleStarSelectInSystem(star) ==
  /\ selectedPlanet' = NoPlanet
  /\ UNCHANGED <<viewMode, selectedStar, previousCamera>>

\* ------------------------------------------------------ ClickableStarField
csfMounted == sceneMode = "galaxy"
\* Variant: the points are rendered as soon as loading ends, even when empty.
pointsRefWhenLoaded == csfMounted /\ ~loading

\* <points ref={pointsRef}> is rendered only once the batch is loaded and
\* not empty.
pointsRefCurrent == csfMounted /\ ~loading /\ Len(stars) # 0

\* loadStars: the fetch started on mount resolves.
StarsLoaded ==
  /\ csfMounted /\ loading
  /\ \E batch \in FetchResults : stars' = batch
  /\ loading' = FALSE
  /\ lastOp' = "loaded" /\ emitted' = << >> /\ UNCHANGED <<calc, svcVars>> /\ ray' = << >> /\ before' = NoSnapshot
  /\ UNCHANGED <<appVars, sceneVars, camVars, psvVars, hoveredStar, rotationY, fieldFetches>>
  /\ UNCHANGED <<clickStar, clickPose, clickRun, trip, captures,
                 entries, captureFrom, camView, savedView>>

\* World position of star i as the tick hands it to distanceToPoint: the
\* starData position, with no rotation applied.
pickPosition(i) == [star |-> stars[i], rotationY |-> 0]

\* World position at which star i is drawn: the same buffer position turned
\* about the y axis by the rotation of the points object.
renderPosition(i) == [star |-> stars[i], rotationY |-> rotationY]

\* Variant: a star exactly at the threshold counts as hovered.
IsCloserInclusive(distance, closestDistance) ==
  distance <= threshold /\ distance < closestDistance

\* Variant: an equally close later star replaces the earlier one.
IsCloserOrEqual(distance, closestDistance) ==
  distance < threshold /\ distance <= closestDistance

\* The comparison of the scan: closer than the threshold and than the best.
IsCloser(distance, closestDistance) ==
  distance < threshold /\ distance < closestDistance

\* starData.forEach of the tick, from index i on (index 0 stands for -1).
RECURSIVE Scan(_, _, _, _)
Scan(d, i, closestDistance, closestIndex) ==
  IF i > Len(d) THEN closestIndex
  ELSE IF IsCloser(d[i], closestDistance)
       THEN Scan(d, i + 1, d[i], i)
       ELSE Scan(d, i + 1, closestDistance, closestIndex)

closestStar(d) == Scan(d, 1, Infinity, NoIndex)

\* useFrame: one picking tick; d[i] is the distance of star i to the ray.
\* rotationY counts the steps of 0.0002 rad the points object was turned by.
FrameTick ==
  /\ pointsRefCurrent /\ Len(stars) > 0
  /\ \E d \in [1..Len(stars) -> DistVals] :
       /\ ray' = d
       /\ hoveredStar' = closestStar(d)
  /\ rotationY' = Min(rotationY + 1, MaxRotationSteps)
  /\ lastOp' = "tick" /\ emitted' = << >> /\ UNCHANGED <<calc, svcVars>> /\ before' = NoSnapshot
  /\ UNCHANGED <<appVars, sceneVars, camVars, psvVars, loading, stars, fieldFetches>>
  /\ UNCHANGED <<clickStar, clickPose, clickRun, trip, captures,
                 entries, captureFrom, camView, savedView>>

\* Variant: the listener is attached twice, each click is delivered twice.
clickEventsTwice(hovered, batch) ==
  IF hovered # NoIndex THEN <<batch[hovered], batch[hovered]>> ELSE << >>

\* handleClick: the star-selected events one canvas click emits.
clickEvents(hovered, batch) ==
  IF hovered # NoIndex THEN <<batch[hovered]>> ELSE << >>

\* handleClick, hovering: the canvas click listener of the mounted field.
CanvasClick ==
  /\ csfMounted /\ hoveredStar # NoIndex
  /\ emitted' = clickEvents(hoveredStar, stars)
  /\ LET star == clickEvents(hoveredStar, stars)[1] IN
       /\ handleStarClick(star)
       /\ clickStar' = star
       /\ clickRun' = IF lastOp = "click" /\ clickStar = star
                      THEN Min(clickRun + 1, CounterCap) ELSE 1
  /\ lastOp' = "click" /\ UNCHANGED <<calc, svcVars>> /\ ray' = << >>
  /\ clickPose' = camera
  /\ before' = Snapshot
  /\ trip' = "selected"
  /\ captures' = IF viewMode = "galaxy" THEN 0 ELSE captures
  /\ entries' = IF viewMode = "galaxy" THEN 0 ELSE entries
  /\ UNCHANGED <<sceneVars, camVars, csfVars, psvVars>>
  /\ UNCHANGED <<captureFrom, camView, savedView>>

\* handleClick, idle: nothing is hovered, nothing is emitted.
CanvasClickIdle ==
  /\ csfMounted /\ hoveredStar = NoIndex
  /\ emitted' = clickEvents(hoveredStar, stars)
  /\ lastOp' = "clickIdle" /\ UNCHANGED <<calc, svcVars>> /\ ray' = << >> /\ before' = NoSnapshot
  /\ UNCHANGED <<appVars, sceneVars, camVars, csfVars, psvVars>>
  /\ UNCHANGED <<clickStar, clickPose, clickRun, trip, captures,
                 entries, captureFrom, camView, savedView>>

\* ------------------------------------------------------------ UI (return)
\* The return button is rendered while the App's viewMode is system.
ReturnClick ==
  /\ viewMode = "system"
  /\ handleReturnToGalaxy
  /\ lastOp' = "return" /\ emitted' = << >> /\ UNCHANGED <<calc, svcVars>> /\ ray' = << >>
  /\ trip' = IF trip = "selected" THEN "returned" ELSE "none"
  /\ clickStar' = IF trip = "selected" THEN clickStar ELSE NoStar
  /\ clickPose' = IF trip = "selected" THEN clickPose ELSE NullPose
  /\ clickRun' = 0
  /\ before' = Snapshot
  /\ UNCHANGED <<sceneVars, camVars, csfVars, psvVars>>
  /\ UNCHANGED <<captures, entries, captureFrom, camView, savedView>>

\* ----------------------------------------------------- PlanetarySystemView
psvMounted == sceneMode = "system" /\ sceneStar # NoStar

\* Variant: no empty state, the full system is rendered without planets.
PsvElementsNoEmptyState(isLoading, found) ==
  IF isLoading THEN {"loadingLabel"}
  ELSE {"star", "glow", "starName", "systemInfo", "orbits"}

\* What PlanetarySystemView renders: the loading label, the star with the
\* no-planets indicator, or the star with its system.
PsvElements(isLoading, found) ==
  IF isLoading THEN {"loadingLabel"}
  ELSE IF found = {} THEN {"star", "starName", "noPlanetsIndicator"}
  ELSE {"star", "glow", "starName", "systemInfo", "orbits"}

\* loadPlanets resolves for the star of the view.
PlanetsResolved ==
  /\ psvMounted /\ psvLoading
  /\ planets' = foundPlanets(sceneStar)
  /\ psvLoading' = FALSE
  /\ lastOp' = "planets" /\ emitted' = << >> /\ UNCHANGED <<calc, svcVars>> /\ ray' = << >> /\ before' = Snapshot
  /\ UNCHANGED <<appVars, sceneVars, camVars, csfVars>>
  /\ UNCHANGED <<clickStar, clickPose, clickRun, trip, captures,
                 entries, captureFrom, camView, savedView>>

\* A planet sphere or label is clicked.
PlanetClick ==
  /\ psvMounted /\ ~psvLoading
  /\ \E planet \in planets : handlePlanetSelect(planet)
  /\ lastOp' = "planet" /\ emitted' = << >> /\ UNCHANGED <<calc, svcVars>> /\ ray' = << >>
  /\ clickRun' = 0
  /\ before' = Snapshot
  /\ UNCHANGED <<sceneVars, camVars, csfVars, psvVars>>
  /\ UNCHANGED <<clickStar, clickPose, trip, captures, entries, captureFrom,
                 camView, savedView>>

\* The central star or its label is clicked (rendered only with planets).
SystemStarClick ==
  /\ psvMounted /\ ~psvLoading /\ planets # {}
  /\ handleStarSelectInSystem(sceneStar)
  /\ lastOp' = "systemStar" /\ emitted' = << >> /\ UNCHANGED <<calc, svcVars>> /\ ray' = << >>
  /\ clickRun' = 0
  /\ before' = Snapshot
  /\ UNCHANGED <<sceneVars, camVars, csfVars, psvVars>>
  /\ UNCHANGED <<clickStar, clickPose, trip, captures, entries, captureFrom,
                 camView, savedView>>

\* --------------------------------------------------------- OrbitControls
\* The user orbits, pans or wheels the camera to another pose.
UserMoveCamera ==
  /\ \E pose \in Poses \ {camera} : camera' = pose
  /\ lastOp' = "move" /\ emitted' = << >> /\ UNCHANGED <<calc, svcVars>> /\ ray' = << >>
  /\ trip' = "none" /\ clickStar' = NoStar /\ clickPose' = NullPose
  /\ clickRun' = 0
  /\ before' = NoSnapshot
  /\ UNCHANGED <<appVars, sceneVars, prevViewMode, csfVars, psvVars>>
  /\ UNCHANGED <<captures, entries, captureFrom, camView, savedView>>

\* Variant: save whenever the mode is system, whatever the previous mode.
ShouldSaveAlways(prev, mode) ==
  mode = "system" /\ controlsRefCurrent

\* ------------------------------------------------------- CameraController
\* Save the pose when switching from galaxy to system.
ShouldSave(prev, mode) ==
  prev = "galaxy" /\ mode = "system" /\ controlsRefCurrent

\* Restore the saved pose when switching to galaxy from system.
ShouldRestore(prev, mode, savedPosition) ==
  mode = "galaxy" /\ prev = "system" /\ savedPosition # NullPose

\* Set the system-view pose when entering the system view.
ShouldEnterSystem(prev, mode) ==
  mode = "system" /\ prev = "galaxy"

\* Variant: only the camera position is restored, not the controls target.
RestoredPositionOnly(savedPosition) ==
  [position |-> savedPosition.position, target |-> Origin]

\* camera.position.set / controls.target.set of the restore branch.
RestoredPose(savedPosition) ==
  [position |-> savedPosition.position, target |-> savedPosition.target]

\* The pose the effect leaves the camera in.
CameraAfterEffect(prev, mode, savedPosition, cam) ==
  IF ShouldRestore(prev, mode, savedPosition) THEN RestoredPose(savedPosition)
  ELSE IF ShouldEnterSystem(prev, mode) THEN SystemPose
  ELSE cam

\* The effect runs when viewMode or savedPosition changed since its last run
\* (a capture stores a new object, so it always counts as a change).
EffectDepsChanged ==
  sceneMode # viewMode \/ sceneSaved # previousCamera \/ savedDirty

\* The effect of CameraController, run with the props of this render.
CameraEffect ==
  LET save == ShouldSave(prevViewMode, viewMode)
      restore == ShouldRestore(prevViewMode, viewMode, previousCamera)
      enter == ShouldEnterSystem(prevViewMode, viewMode)
  IN
  /\ previousCamera' = IF save THEN camera ELSE previousCamera
  /\ savedDirty' = save
  /\ camera' = CameraAfterEffect(prevViewMode, viewMode, previousCamera, camera)
  /\ prevViewMode' = viewMode
  /\ captures' = IF save THEN Min(captures + 1, CounterCap) ELSE captures
  /\ captureFrom' = IF save THEN prevViewMode ELSE captureFrom
  /\ savedView' = IF save THEN camView ELSE savedView
  /\ entries' = IF enter /\ ~restore THEN Min(entries + 1, CounterCap) ELSE entries
  /\ camView' = IF restore THEN "galaxy"
                ELSE IF enter THEN "system" ELSE camView

\* The canvas tree is rendered with the App's current state: the star field
\* or the system view is mounted / unmounted, then the camera effect runs if
\* its dependencies changed.
SceneCommit ==
  /\ sceneMode # viewMode \/ sceneStar # selectedStar \/ EffectDepsChanged
  /\ sceneMode' = viewMode
  /\ sceneStar' = selectedStar
  /\ sceneSaved' = previousCamera
  /\ IF EffectDepsChanged
     THEN CameraEffect
     ELSE UNCHANGED <<previousCamera, savedDirty, camera, prevViewMode,
                      captures, captureFrom, savedView, entries, camView>>
  \* ClickableStarField: a new mount starts loading; state is lost on unmount
  /\ IF (sceneMode = "galaxy") = (viewMode = "galaxy")
     THEN UNCHANGED csfVars
     ELSE /\ loading' = (viewMode = "galaxy")
          /\ stars' = << >> /\ hoveredStar' = NoIndex /\ rotationY' = 0
          /\ fieldFetches' = IF viewMode = "galaxy"
                              THEN Min(fieldFetches + 1, CounterCap)
                              ELSE fieldFetches
  \* PlanetarySystemView: loadPlanets runs on mount and when the star changes
  /\ LET was == psvMounted
         is == viewMode = "system" /\ selectedStar # NoStar
     IN IF is /\ (~was \/ sceneStar # selectedStar)
        THEN /\ psvLoading' = TRUE
             /\ planets' = IF was THEN planets ELSE {}
        ELSE IF ~is
        THEN psvLoading' = FALSE /\ planets' = {}
        ELSE UNCHANGED psvVars
  /\ lastOp' = "commit" /\ emitted' = << >> /\ UNCHANGED <<calc, svcVars>> /\ ray' = << >> /\ before' = NoSnapshot
  /\ UNCHANGED <<viewMode, selectedStar, selectedPlanet>>
  /\ UNCHANGED <<clickStar, clickPose, clickRun, trip>>

\* ---------------------------------------------------------- specification
Next ==
  \/ StarsLoaded
  \/ FrameTick
  \/ CanvasClick
  \/ CanvasClickIdle
  \/ ReturnClick
  \/ PlanetsResolved
  \/ PlanetClick
  \/ SystemStarClick
  \/ UserMoveCamera
  \/ SceneCommit

Spec == Init /\ [][Next]_vars

\* Picking alone: the star field holds a loaded batch, in any order and of
\* any length up to MaxBatch, and only frame ticks happen.
Batches ==
  UNION {{b \in [1..n -> 1..MaxBatch] : \A i, j \in 1..n : b[i] = b[j] => i = j} :
         n \in 0..MaxBatch}

PickInit ==
  /\ InitView
  /\ loading = FALSE /\ stars \in Batches

PickNext == FrameTick

PickSpec == PickInit /\ [][PickNext]_vars

\* ------------------------------------------ catalog functions, on their own
\* Each behaviour of CalcSpec evaluates one function once, on inputs drawn
\* from the sets below, and records it in calc.
\* Star records the catalog functions are evaluated on: a negative and a
\* faint magnitude, a missing colour index, a parallax that is not positive.
SampleStars ==
  {[source_id |-> <<"gaia", 1>>, ra |-> Num(0), dec |-> Num(0), parallax |-> Num(10),
    phot_g_mean_mag |-> Num(8), bp_rp |-> Rat(1, 2)],
   [source_id |-> <<"gaia", 2>>, ra |-> Num(90), dec |-> Num(0), parallax |-> Num(5),
    phot_g_mean_mag |-> Num(2), bp_rp |-> Undefined],
   [source_id |-> <<"gaia", 3>>, ra |-> Num(180), dec |-> Num(0), parallax |-> Num(0),
    phot_g_mean_mag |-> Num(-2), bp_rp |-> Num(-1)],
   [source_id |-> <<"gaia", 4>>, ra |-> Num(270), dec |-> Num(90), parallax |-> Rat(1, 2),
    phot_g_mean_mag |-> Num(10), bp_rp |-> Num(3)]}
StarBatches == UNION {[1..n -> SampleStars] : n \in 0..MaxBatch}

\* What the fetch of the star file can give.
Responses ==
  {[kind |-> "rejected"], [kind |-> "notOk"], [kind |-> "badJson"]}
    \cup {[kind |-> "ok", body |-> b] : b \in StarBatches}
FetchLimits == {0, 1, 2, 1999, 2000, 2001, 50000}
\* The magnitude ranges of the callers and the default one.
MagnitudeRanges == {<<Num(-2), Num(10)>>, <<Num(-10), Num(20)>>, <<Num(0), Num(14)>>}

ParallaxVals == {Rat(n, 4) : n \in -4..48} \cup {Num(100), Num(1000)}
\* Magnitudes with a whole exponent: the even ones from -12 to 28.
MagnitudeVals == {Num(2 * n) : n \in -6..14}
\* Semi-major axes in AU (some missing), for planet lists of a system.
AxisVals == {Undefined, Rat(1, 2), Num(1), Num(6), Num(10), Num(20), Num(40)}
AxisLists == UNION {[1..n -> AxisVals] : n \in 1..MaxBatch}
BpRpVals == {Undefined} \cup {Rat(n, 4) : n \in -16..20}
ProperMotionVals == {Undefined} \cup {Num(n) : n \in {-4, -3, 0, 2, 3, 4}} \cup {Rat(3, 2)}

\* Planet records and the stars they are looked up for.
PlanetSamples ==
  {[pl_name |-> <<"K", "1", "0", "b">>, hostname |-> <<"K", "1", "0">>,
    ra |-> Num(3), dec |-> Num(3),
    pl_eqt |-> Undefined, pl_rade |-> Undefined, habitable |-> "unset"],
   [pl_name |-> <<"K", "1", "b">>, hostname |-> <<"K", "1">>,
    ra |-> Num(1), dec |-> Num(1),
    pl_eqt |-> Undefined, pl_rade |-> Undefined, habitable |-> "unset"],
   [pl_name |-> <<"X", "b">>, hostname |-> Undefined,
    ra |-> Num(0), dec |-> Num(2),
    pl_eqt |-> Undefined, pl_rade |-> Undefined, habitable |-> "unset"]}
QueryStars ==
  {[name |-> <<"K", "1">>, ra |-> Num(1), dec |-> Num(1)],
   [name |-> <<"K", "1", "0">>, ra |-> Num(3), dec |-> Num(3)],
   [name |-> <<"X">>, ra |-> Rat(201, 200), dec |-> Num(1)],
   [name |-> <<"k", "1">>, ra |-> Num(1), dec |-> Num(1)],
   [name |-> <<"H", "D", "7">>, ra |-> Undefined, dec |-> Undefined]}

EvalFetchGaiaStars ==
  /\ calc = NoCalc
  /\ \E response \in Responses, limit \in FetchLimits, range \in MagnitudeRanges :
       /\ calc' = [fn |-> "fetchGaiaStars",
                   in |-> [response |-> response, limit |-> limit, range |-> range],
                   out |-> fetchGaiaStars(response, limit, range[1], range[2])]
       /\ UNCHANGED <<viewVars, svcVars>>

EvalParallaxToDistance ==
  /\ calc = NoCalc
  /\ \E p \in ParallaxVals, q \in ParallaxVals :
       /\ calc' = [fn |-> "parallaxToDistance", in |-> <<p, q>>,
                   out |-> <<parallaxToDistance(p), parallaxToDistance(q)>>]
       /\ UNCHANGED <<viewVars, svcVars>>

EvalMagnitudeToSize ==
  /\ calc = NoCalc
  /\ \E m1 \in MagnitudeVals, m2 \in MagnitudeVals :
       /\ calc' = [fn |-> "magnitudeToSize", in |-> <<m1, m2>>,
                   out |-> <<magnitudeToSize(m1), magnitudeToSize(m2)>>]
       /\ UNCHANGED <<viewVars, svcVars>>

\* One run of CameraController's effect, on any props and camera.
EvalCameraEffect ==
  /\ calc = NoCalc
  /\ \E prev \in {"galaxy", "system"}, mode \in {"galaxy", "system"},
        savedPosition \in Poses \cup {NullPose}, cam \in Poses :
       /\ calc' = [fn |-> "cameraEffect",
                   in |-> [prevViewMode |-> prev, viewMode |-> mode,
                           savedPosition |-> savedPosition, camera |-> cam],
                   out |-> CameraAfterEffect(prev, mode, savedPosition, cam)]
       /\ UNCHANGED <<viewVars, svcVars>>

EvalSystemRings ==
  /\ calc = NoCalc
  /\ \E axes \in AxisLists :
       /\ calc' = [fn |-> "systemRings", in |-> axes, out |-> systemRings(axes)]
       /\ UNCHANGED <<viewVars, svcVars>>

EvalColorIndexToRGB ==
  /\ calc = NoCalc
  /\ \E bpRp \in BpRpVals :
       /\ calc' = [fn |-> "colorIndexToRGB", in |-> bpRp, out |-> colorIndexToRGB(bpRp)]
       /\ UNCHANGED <<viewVars, svcVars>>

\* The square root is taken only where it is rational.
EvalGetTotalProperMotion ==
  /\ calc = NoCalc
  /\ \E pmra \in ProperMotionVals, pmdec \in ProperMotionVals :
       /\ IF Falsy(pmra) \/ Falsy(pmdec) THEN TRUE
          ELSE LET sum == RatAdd(RatMul(pmra, pmra), RatMul(pmdec, pmdec))
               IN IsSquare(sum[1]) /\ IsSquare(sum[2])
       /\ calc' = [fn |-> "getTotalProperMotion", in |-> <<pmra, pmdec>>,
                   out |-> getTotalProperMotion(pmra, pmdec)]
       /\ UNCHANGED <<viewVars, svcVars>>

EvalPointCloud ==
  /\ calc = NoCalc
  /\ \E batch \in StarBatches :
       /\ calc' = [fn |-> "pointCloud", in |-> batch, out |-> buildPointCloud(batch)]
       /\ UNCHANGED <<viewVars, svcVars>>

\* Two lookups against the same planet cache.
EvalGetExoplanetsForStar ==
  /\ calc = NoCalc
  /\ \E cache \in SUBSET PlanetSamples, a \in QueryStars, b \in QueryStars :
       /\ calc' = [fn |-> "getExoplanetsForStar",
                   in |-> [cache |-> cache, first |-> a, second |-> b],
                   out |-> <<getExoplanetsForStar(cache, a.name, a.ra, a.dec),
                             getExoplanetsForStar(cache, b.name, b.ra, b.dec)>>]
       /\ UNCHANGED <<viewVars, svcVars>>

CalcNext ==
  \/ EvalFetchGaiaStars
  \/ EvalParallaxToDistance
  \/ EvalMagnitudeToSize
  \/ EvalCameraEffect
  \/ EvalSystemRings
  \/ EvalColorIndexToRGB
  \/ EvalGetTotalProperMotion
  \/ EvalPointCloud
  \/ EvalGetExoplanetsForStar

CalcSpec == Init /\ [][CalcNext]_vars

\* ----------------------------------------------- exoplanet service, alone
\* Planets of host K10 with every combination of a temperature and a radius
\* below, on and above the bounds of the habitable window, zero or missing.
TempVals == {Undefined, Num(0), Num(199), Num(200), Num(350), Num(351)}
RadiusVals == {Undefined, Num(0), Rat(49, 100), Rat(1, 2), Num(2), Rat(201, 100)}
HabitabilitySamples ==
  {[pl_name |-> <<"K", "1", "0", t, r>>, hostname |-> <<"K", "1", "0">>,
    ra |-> Num(3), dec |-> Num(3),
    pl_eqt |-> t, pl_rade |-> r, habitable |-> "unset"] :
     t \in TempVals, r \in RadiusVals}
\* The planet file and what its fetch can give.
ExoplanetFile == PlanetSamples \cup HabitabilitySamples
ExoResponses == {[kind |-> "failed"], [kind |-> "ok", body |-> ExoplanetFile]}

\* The part of getExoplanetsForStar that runs once the cache is there:
\* filter, habitability pass over the planets found (which are the objects
\* of the cache), return.
finishCall(c, cache) ==
  LET star == calls[c].star
      found == matchingPlanets(cache.planets, star.name, star.ra, star.dec)
      flagged == getExoplanetsForStar(cache.planets, star.name, star.ra, star.dec)
  IN /\ allExoplanetsCache' = [cache EXCEPT !.planets = (cache.planets \ found) \cup flagged]
     /\ calls' = [calls EXCEPT ![c].pc = "done", ![c].result = flagged,
                               ![c].source = cache.origin]

\* getExoplanetsForStar is called: up to the await of fetchExoplanets when
\* the cache is missing, to its end otherwise.
CallStart ==
  \E c \in CallIds, star \in QueryStars :
    /\ calls[c].pc = "idle"
    /\ IF cacheMissing(allExoplanetsCache)
       THEN /\ exoFetches' = exoFetches + 1
            /\ calls' = [calls EXCEPT ![c].pc = "fetching", ![c].star = star,
                                      ![c].fetched = TRUE,
                                      ![c].afterFailure =
                                        allExoplanetsCache.origin = "error"]
            /\ UNCHANGED allExoplanetsCache
       ELSE /\ LET cache == allExoplanetsCache
                   found == matchingPlanets(cache.planets, star.name, star.ra, star.dec)
                   flagged == getExoplanetsForStar(cache.planets, star.name, star.ra, star.dec)
               IN /\ allExoplanetsCache' =
                       [cache EXCEPT !.planets = (cache.planets \ found) \cup flagged]
                  /\ calls' = [calls EXCEPT
                       ![c] = [pc |-> "done", star |-> star, fetched |-> FALSE,
                               afterFailure |-> cache.origin = "error",
                               source |-> cache.origin, result |-> flagged]]
            /\ UNCHANGED exoFetches
    /\ UNCHANGED <<viewVars, calc>>

\* The fetch a call awaits settles: the call stores the array in the cache
\* and runs to its end.
FetchSettles ==
  \E c \in CallIds, response \in ExoResponses :
    /\ calls[c].pc = "fetching"
    /\ finishCall(c, [loaded |-> TRUE, planets |-> fetchExoplanets(response),
                      origin |-> IF response.kind = "ok" THEN "file" ELSE "error"])
    /\ UNCHANGED <<viewVars, calc, exoFetches>>

ServiceNext ==
  \/ CallStart
  \/ FetchSettles

ServiceSpec == Init /\ [][ServiceNext]_vars

\* The canvas shows the App's current state and no effect is pending.
Settled ==
  /\ sceneMode = viewMode /\ sceneStar = selectedStar
  /\ sceneSaved = previousCamera /\ ~savedDirty

TypeOK ==
  /\ viewMode \in {"galaxy", "system"} /\ sceneMode \in {"galaxy", "system"}
  /\ prevViewMode \in {"galaxy", "system"}
  /\ selectedStar \in Stars \cup {NoStar} /\ sceneStar \in Stars \cup {NoStar}
  /\ selectedPlanet \in ExoplanetCatalog \cup {NoPlanet}
  /\ previousCamera \in Poses \cup {NullPose} /\ camera \in Poses
  /\ hoveredStar \in 0..Len(stars)
  /\ rotationY \in 0..MaxRotationSteps /\ fieldFetches \in 1..CounterCap
  /\ captures \in 0..CounterCap /\ entries \in 0..CounterCap

\* ------------------------------------------------------------------ claims

\* C1: in every reachable view state, if the mode is galaxy then the selected
\* planet is null.
GalaxyHasNoSelectedPlanet ==
  viewMode = "galaxy" => selectedPlanet = NoPlanet

\* C2: selecting a star in galaxy mode at camera pose P and then immediately
\* returning to galaxy leaves the camera at pose P exactly, position and
\* target, once the canvas has rendered the return.
RoundTripRestoresPose ==
  (trip = "returned" /\ Settled) => camera = clickPose

\* C2 witness: a round trip through the system view (the pose was captured,
\* the camera went to the system pose) came back to a pose whose target is
\* not the origin.
RoundTripRestoresPoseWitness ==
  /\ trip = "returned" /\ Settled /\ lastOp = "commit"
  /\ captures = 1 /\ entries = 1 /\ camView = "galaxy"
  /\ camera = clickPose /\ clickPose.target # Origin
  /\ clickPose.position # GalaxyPosition

\* C3: a pose is captured at most once per Galaxy->System transition, never
\* while the controller is already in system mode, and the saved pose is
\* never a pose the camera took in the system view.
CaptureOncePerTransition ==
  /\ captures <= 1
  /\ captureFrom # "system"
  /\ savedView # "system"

\* C3 witness: the effect re-ran because the saved pose had just changed
\* (controller already in system mode) and the capture count is still one.
CaptureOncePerTransitionWitness ==
  /\ lastOp = "commit" /\ Settled
  /\ viewMode = "system" /\ prevViewMode = "system"
  /\ captures = 1 /\ previousCamera # NullPose

\* C4: a return-to-galaxy request made in system mode sets the mode to
\* galaxy and clears both the selected star and the selected planet.
ReturnClearsStarAndPlanet ==
  (lastOp = "return" /\ before.viewMode = "system") =>
    /\ viewMode = "galaxy"
    /\ selectedStar = NoStar
    /\ selectedPlanet = NoPlanet

\* C5: selecting any star in galaxy mode, with or without planets, ends
\* (once the canvas has rendered it) in mode system, that star selected, the
\* saved pose equal to the camera pose at the moment of selection, and the
\* camera at the default system-view pose.
StarSelectionOutcome ==
  (trip = "selected" /\ Settled) =>
    /\ viewMode = "system"
    /\ selectedStar = clickStar
    /\ previousCamera = clickPose
    /\ camera = SystemPose

\* C5 witness: a star without planets was selected from a pose the user had
\* moved to, and the transition has completed.
StarSelectionOutcomeWitness ==
  /\ trip = "selected" /\ Settled
  /\ clickStar # NoStar /\ foundPlanets(clickStar) = {}
  /\ clickPose # InitialPose /\ previousCamera = clickPose
  /\ camera = SystemPose

\* C6: there is no reachable state in which the mode is already system while
\* the saved pose does not yet hold the galaxy pose captured for that
\* transition.
ModeAndPoseChangeTogether ==
  (viewMode = "system" /\ trip = "selected") => previousCamera = clickPose

\* C7: delivering the same star-selected event twice in a row, before the
\* canvas re-renders, yields the same view state as delivering it once, with
\* exactly one Galaxy->System transition and exactly one pose capture.
DoubleClickIdempotent ==
  /\ (lastOp = "click" /\ clickRun >= 2) =>
       /\ viewMode = before.viewMode
       /\ selectedStar = before.selectedStar
       /\ selectedPlanet = before.selectedPlanet
       /\ previousCamera = before.previousCamera
       /\ camera = before.camera
  /\ (clickRun >= 2 /\ trip = "selected" /\ Settled) =>
       /\ viewMode = "system" /\ selectedStar = clickStar
       /\ previousCamera = clickPose /\ camera = SystemPose
       /\ captures = 1 /\ entries = 1

\* C7 witness: the same star was clicked twice in a row and the transition
\* completed with one capture.
DoubleClickIdempotentWitness ==
  /\ clickRun >= 2 /\ trip = "selected" /\ Settled
  /\ selectedStar = clickStar /\ captures = 1 /\ entries = 1

\* C8: a star selection made inside the system view leaves the mode (still
\* system), the saved pose, the camera and the selected star unchanged.
InSystemStarSelectFrame ==
  lastOp = "systemStar" =>
    /\ viewMode = before.viewMode
    /\ before.viewMode = "system" => viewMode = "system"
    /\ selectedStar = before.selectedStar
    /\ previousCamera = before.previousCamera
    /\ camera = before.camera

\* C8 witness: in system mode, with a planet selected, the central star was
\* clicked and the planet selection was cleared.
InSystemStarSelectFrameWitness ==
  /\ lastOp = "systemStar" /\ viewMode = "system"
  /\ selectedStar # NoStar /\ previousCamera # NullPose
  /\ before.selectedPlanet # NoPlanet /\ selectedPlanet = NoPlanet

\* C9: after every picking tick the hover state is hovering(i) for a star i
\* of minimum distance among the stars closer than the threshold, and idle
\* when no star is closer than the threshold.
HoverIsNearestWithinThreshold ==
  lastOp = "tick" =>
    LET near == {i \in 1..Len(ray) : ray[i] < threshold} IN
    IF near = {} THEN hoveredStar = NoIndex
    ELSE /\ hoveredStar \in near
         /\ \A j \in near : ray[hoveredStar] <= ray[j]

\* C9 witness: three stars at distances 50, 4 and 1; the last is hovered.
HoverIsNearestWithinThresholdWitness ==
  lastOp = "tick" /\ ray = <<50, 4, 1>> /\ hoveredStar = 3

\* C10: when several stars within the threshold share the minimal distance,
\* the tick selects the one with the lowest index, whatever the batch order.
TieResolvesToLowestIndex ==
  (lastOp = "tick" /\ hoveredStar # NoIndex) =>
    \A j \in 1..Len(ray) : ray[j] = ray[hoveredStar] => hoveredStar <= j

\* C10 witness: the second and third star tie at the minimal distance and
\* the second is hovered.
TieResolvesToLowestIndexWitness ==
  /\ lastOp = "tick" /\ Len(ray) = 3
  /\ ray[2] = ray[3] /\ ray[2] < ray[1] /\ ray[2] < threshold
  /\ hoveredStar = 2

\* C11: a canvas click emits exactly one star-selected event, carrying the
\* record of the hovered star, when the picking state is hovering, and no
\* event when it is idle.
ClickEmitsHoveredStar ==
  /\ (lastOp = "click" \/ lastOp = "clickIdle") =>
       emitted = IF hoveredStar # NoIndex THEN <<stars[hoveredStar]>> ELSE << >>
  /\ lastOp = "click" => selectedStar = stars[hoveredStar]
  /\ lastOp = "clickIdle" => hoveredStar = NoIndex

\* C11 witness: the second star of the batch was hovered and clicked.
ClickEmitsHoveredStarWitness ==
  /\ lastOp = "click" /\ hoveredStar = 2
  /\ Len(emitted) = 1 /\ emitted[1] = stars[2] /\ selectedStar = stars[2]

\* C12: while the catalog load is pending, and after it resolved with an
\* empty batch, no points are rendered, the picking state is idle and no
\* star-selected event is emitted.
NothingWhilePendingOrEmpty ==
  (csfMounted /\ (loading \/ Len(stars) = 0)) =>
    /\ ~pointsRefCurrent
    /\ hoveredStar = NoIndex
    /\ emitted = << >>

\* C12 witness: the load resolved with an empty batch and the canvas was
\* clicked.
NothingWhilePendingOrEmptyWitness ==
  /\ csfMounted /\ ~loading /\ stars = << >> /\ lastOp = "clickIdle"

\* C14: when planet resolution completes with zero planets the system view
\* shows the star with the no-planets indicator, the view state is as before
\* (mode still system) and the return to galaxy is enabled.
NoPlanetsEmptyState ==
  /\ (psvMounted /\ ~psvLoading /\ planets = {}) =>
       PsvElements(psvLoading, planets) = {"star", "starName", "noPlanetsIndicator"}
  /\ (lastOp = "planets" /\ planets = {}) =>
       /\ viewMode = before.viewMode /\ selectedStar = before.selectedStar
       /\ viewMode = "system" => ENABLED ReturnClick

\* C14 witness: the planets of a star without planets were resolved in
\* system mode.
NoPlanetsEmptyStateWitness ==
  /\ lastOp = "planets" /\ planets = {} /\ viewMode = "system"
  /\ sceneStar # NoStar /\ selectedStar = sceneStar

\* C13: when the catalog fetch fails (rejected, not ok, or unreadable)
\* fetchGaiaStars does not throw and fetches once: it resolves with exactly
\* min(limit, 2000) mock stars, hence 2000 for the limit 50000.
FetchFailureFallsBackToMock ==
  (calc.fn = "fetchGaiaStars" /\ calc.in.response.kind # "ok") =>
    /\ calc.out.settled = "resolved"
    /\ calc.out.fetches = 1
    /\ Len(calc.out.stars) = Min(calc.in.limit, 2000)
    /\ \A i \in 1..Len(calc.out.stars) : calc.out.stars[i].source_id = <<"mock", i - 1>>
    /\ calc.in.limit = 50000 => Len(calc.out.stars) = 2000

\* C13 witness: the response was not ok for the limit 50000 and 2000 mock
\* stars came back.
FetchFailureFallsBackToMockWitness ==
  /\ calc.fn = "fetchGaiaStars" /\ calc.in.response.kind = "notOk"
  /\ calc.in.limit = 50000 /\ Len(calc.out.stars) = 2000

\* C15: for every star of a batch (all magnitudes finite, negative ones
\* included) the three colour values written to the colour buffer lie in
\* [0,1] and the size written is at least 1.
ColourAndSizeInRange ==
  calc.fn = "pointCloud" =>
    \A i \in 1..Len(calc.in) :
      /\ \A k \in 1..3 :
           /\ RatLeq(Num(0), calc.out.colors[bufferIndex(i, k, 3)])
           /\ RatLeq(calc.out.colors[bufferIndex(i, k, 3)], Num(1))
      /\ RatLeq(Num(1), calc.out.sizes[i])

\* C16: for a batch of n stars the builder produces positions of length 3n,
\* sizes of length n, colours of length 3n and a pick table of length n;
\* entry i of each is the value of star i alone, in input order.
BuilderIsPerStarInOrder ==
  calc.fn = "pointCloud" =>
    LET batch == calc.in
        n == Len(batch)
    IN /\ Len(calc.out.positions) = 3 * n /\ Len(calc.out.sizes) = n
       /\ Len(calc.out.colors) = 3 * n /\ Len(calc.out.starData) = n
       /\ \A i \in 1..n :
            /\ \A k \in 1..3 :
                 /\ calc.out.positions[3 * (i - 1) + k] = fround(starPosition(batch[i])[k])
                 /\ calc.out.colors[3 * (i - 1) + k] = fround(starColor(batch[i])[k])
            /\ calc.out.sizes[i] = fround(magnitudeToSize(batch[i].phot_g_mean_mag))
            /\ calc.out.starData[i] =
                 [star |-> batch[i], position |-> starPosition(batch[i])]

\* C16 witness: a batch of three stars, neighbours different, was built.
BuilderIsPerStarInOrderWitness ==
  /\ calc.fn = "pointCloud" /\ Len(calc.in) = 3
  /\ calc.in[1] # calc.in[2] /\ calc.in[2] # calc.in[3]
  /\ Len(calc.out.positions) = 9

\* C17: for two stars with different names and coordinates more than 0.01
\* degrees apart, getExoplanetsForStar returns a planet of the catalog for
\* at most one of them.
PlanetHasOneHost ==
  calc.fn = "getExoplanetsForStar" =>
    LET a == calc.in.first
        b == calc.in.second
        apart == /\ a.ra # Undefined /\ a.dec # Undefined
                 /\ b.ra # Undefined /\ b.dec # Undefined
                 /\ LET dRa == RatSub(a.ra, b.ra)
                        dDec == RatSub(a.dec, b.dec)
                    IN RatLt(Rat(1, 10000),
                             RatAdd(RatMul(dRa, dRa), RatMul(dDec, dDec)))
    IN (a.name # b.name /\ apart) =>
         \A planet \in calc.in.cache :
           ~(planet \in calc.out[1] /\ planet \in calc.out[2])

\* C18: getTotalProperMotion returns the Euclidean norm whenever both
\* components are present, a component equal to 0 included, and 0 when a
\* component is absent.
ProperMotionIsNorm ==
  calc.fn = "getTotalProperMotion" =>
    LET pmra == calc.in[1]
        pmdec == calc.in[2]
    IN /\ (pmra # Undefined /\ pmdec # Undefined) =>
            /\ RatLeq(Num(0), calc.out)
            /\ RatMul(calc.out, calc.out) =
                 RatAdd(RatMul(pmra, pmra), RatMul(pmdec, pmdec))
       /\ (pmra = Undefined \/ pmdec = Undefined) => calc.out = Num(0)

\* C19: parallaxToDistance returns 100 for every parallax <= 0, a value in
\* [10,200] for every parallax > 0, and does not increase as a positive
\* parallax increases.
ParallaxDistanceClampedMonotone ==
  calc.fn = "parallaxToDistance" =>
    /\ \A k \in 1..2 :
         /\ RatLeq(calc.in[k], Num(0)) => calc.out[k] = Num(100)
         /\ RatLt(Num(0), calc.in[k]) =>
              RatLeq(Num(10), calc.out[k]) /\ RatLeq(calc.out[k], Num(200))
    /\ (RatLt(Num(0), calc.in[1]) /\ RatLeq(calc.in[1], calc.in[2])) =>
         RatLeq(calc.out[2], calc.out[1])

\* C19 witness: two parallaxes inside the clamp, the larger one nearer.
ParallaxDistanceClampedMonotoneWitness ==
  /\ calc.fn = "parallaxToDistance"
  /\ calc.in = <<Num(4), Num(5)>> /\ calc.out = <<Num(25), Num(20)>>

\* C20: colorIndexToRGB returns (1,1,1) for a missing colour index and
\* three channels within [0,1] for every colour index, those below -0.5 and
\* above 3.0 included.
ColourChannelsInUnitRange ==
  calc.fn = "colorIndexToRGB" =>
    /\ calc.in = Undefined => calc.out = <<Num(1), Num(1), Num(1)>>
    /\ \A k \in 1..3 : RatLeq(Num(0), calc.out[k]) /\ RatLeq(calc.out[k], Num(1))

\* C20 witness: a colour index above 3.0 gave the reddest colour.
ColourChannelsInUnitRangeWitness ==
  /\ calc.fn = "colorIndexToRGB" /\ calc.in = Num(5)
  /\ calc.out = <<Num(1), Rat(3, 10), Num(0)>>

\* C21: magnitudeToSize is always within [1,12] and does not increase as
\* the magnitude increases.
MagnitudeSizeClampedMonotone ==
  calc.fn = "magnitudeToSize" =>
    /\ \A k \in 1..2 :
         RatLeq(Num(1), calc.out[k]) /\ RatLeq(calc.out[k], Num(12))
    /\ RatLeq(calc.in[1], calc.in[2]) => RatLeq(calc.out[2], calc.out[1])

\* C21 witness: two magnitudes inside the clamp, the fainter one smaller.
MagnitudeSizeClampedMonotoneWitness ==
  /\ calc.fn = "magnitudeToSize"
  /\ calc.in = <<Num(2), Num(4)>> /\ calc.out = <<Rat(27, 8), Rat(9, 4)>>

\* C22: after any number of frame ticks, for every star index the position
\* used for the ray-to-point distance equals the position at which the star
\* is rendered.
PickUsesRenderedPositions ==
  pointsRefCurrent =>
    \A i \in 1..Len(stars) : pickPosition(i) = renderPosition(i)

\* C25: the star field fetches the catalog once per session; re-entering
\* galaxy mode starts no other fetch and does not put the galaxy view back
\* into its loading state.
CatalogLoadedOnce ==
  /\ fieldFetches = 1
  /\ (csfMounted /\ captures > 0) => ~loading

OrbitsFitDisplayRadius ==
  calc.fn = "systemRings" =>
    /\ \A i \in 1..Len(calc.in) : RatLeq(calc.out.orbitRadius[i], Num(50))
    /\ calc.out.habitableZoneScale = auScale(calc.in)

\* C28: a planet selected while in system mode is one of the planets
\* resolved for the selected star (after selecting a planet of star A,
\* returning and selecting star B, it is not still the planet of A).
SelectedPlanetBelongsToSelectedStar ==
  (viewMode = "system" /\ selectedPlanet # NoPlanet) =>
    selectedPlanet \in foundPlanets(selectedStar)

HabitableFlagIsInclusiveWindow ==
  \A c \in CallIds :
    calls[c].pc = "done" =>
      \A planet \in calls[c].result :
        (planet.pl_eqt # Undefined /\ planet.pl_rade # Undefined) =>
          ((planet.habitable = "true") <=>
             /\ RatLeq(Num(200), planet.pl_eqt) /\ RatLeq(planet.pl_eqt, Num(350))
             /\ RatLeq(Rat(1, 2), planet.pl_rade) /\ RatLeq(planet.pl_rade, Num(2)))

\* C27 witness: a call returned planets on the corners of the window,
\* flagged habitable, and one just outside it, flagged not habitable.
HabitableFlagIsInclusiveWindowWitness ==
  \E c \in CallIds :
    /\ calls[c].pc = "done"
    /\ \E planet \in calls[c].result :
         planet.pl_eqt = Num(200) /\ planet.pl_rade = Num(2) /\ planet.habitable = "true"
    /\ \E planet \in calls[c].result :
         planet.pl_eqt = Num(350) /\ planet.pl_rade = Rat(1, 2) /\ planet.habitable = "true"
    /\ \E planet \in calls[c].result :
         planet.pl_eqt = Num(351) /\ planet.pl_rade = Num(2) /\ planet.habitable = "false"

\* C30: across any interleaving of getExoplanetsForStar calls the planet
\* file is fetched at most once, and each call that got the file resolves
\* the planets of the star it was called for.
PlanetFileFetchedAtMostOnce ==
  /\ exoFetches <= 1
  /\ \A c \in CallIds :
       (calls[c].pc = "done" /\ calls[c].source = "file") =>
         calls[c].result =
           getExoplanetsForStar(ExoplanetFile, calls[c].star.name,
                                calls[c].star.ra, calls[c].star.dec)

====
